---- MODULE Spec2Model ----
(***************************************************************************)
(* Model of the ensenso ROS node (src/src/ensenso_node.cpp): the main       *)
(* thread runs main() -- the HandeyeCalibration constructor, ros::spin(),   *)
(* ros::shutdown() and the destructor -- while the grabber's acquisition    *)
(* thread runs grabberCallback once per frame triple.  The EnsensoGrabber   *)
(* driver is not part of the source file; its operations are modelled from  *)
(* the device-session contract of the specification, and a failing driver   *)
(* call either reports the failure through its return value (which the node *)
(* discards) or raises an exception (which the node never catches).         *)
(***************************************************************************)
EXTENDS Integers, Sequences, FiniteSets, TLC

\* ------------------------------------------------------------------ bounds
\* Number of frame triples the acquisition thread delivers in a run.
MaxFrames == 2
\* Largest value of the wall clock read by ros::Time::now().
MaxTime == 1
\* Number of times the device's calibration changes in a run.
MaxCalib == 1

\* ------------------------------------------------------- program constants
DefaultSerial == "150533"
DefaultFrameId == "ensenso_optical_frame"
ConversionFrameId == "world"
ColorTag == "CV_8UC3"

Options == {"serial_no", "camera_frame_id", "front_light", "projector"}
Channels == {"l_raw", "r_raw", "l_rect", "r_rect", "cloud"}
Eyes == {"Left", "Right"}

\* Driver encoding tags the device hands over: the colour tag, the grey tag
\* and a tag the node does not know.
Tags == {"CV_8UC3", "CV_8UC1", "CV_16UC1"}
\* (height, width) of the images of one triple.
Shapes == {<<1, 2>>, <<2, 3>>}

NoMsg == [kind |-> "none"]
\* A default-constructed sensor_msgs::CameraInfo.
EmptyInfo == [kind |-> "info", eye |-> "", K |-> <<"", 0>>, frame_id |-> "", stamp |-> 0]

VARIABLES
    paramServer,      \* the private parameters set at launch: name -> value
    pc,               \* position of the main thread
    serial_no,        \* local of the constructor
    camera_frame_id_, \* member
    front_light,      \* local of the constructor
    projector,        \* local of the constructor
    warnings,         \* options a ROS_WARN was emitted for
    advertised,       \* channel -> "no" | "plain" | "latched"
    ensenso,          \* state of the grabber behind ensenso_ptr_
    calib,            \* version of the calibration the device holds now
    calls,            \* driver calls of the main thread, in order
    failed,           \* main-thread driver calls that failed
    rosUp,            \* ros::shutdown() has not run yet
    cb_pc,            \* position of the acquisition thread inside grabberCallback
    frames,           \* frame triples delivered so far
    triple,           \* the triple the callback was fired with
    linfo,            \* local of grabberCallback
    rinfo,            \* local of grabberCallback
    cbFailed,         \* intrinsics queries of this invocation that failed
    arrivalCalib,     \* version of the calibration when this invocation began
    published,        \* artifacts published by this invocation, in order
    now,              \* last value read from the clock
    retained,         \* channel -> message the transport keeps for late consumers
    latest,           \* channel -> sequence number of the last triple published on it
    lateRecv          \* the consumer that attached last: its channel and what it got

mainVars == <<paramServer, pc, serial_no, camera_frame_id_, front_light, projector,
              warnings, advertised, calls, failed, rosUp>>
cbVars == <<cb_pc, frames, triple, linfo, rinfo, cbFailed, arrivalCalib, published>>
chanVars == <<retained, latest, lateRecv>>
vars == <<mainVars, ensenso, calib, cbVars, now, chanVars>>

\* --------------------------------------------------------------- parameters
\* The launch configurations: each option is either absent or set.
ParamServers ==
    { [o \in present |-> CASE o = "serial_no" -> "160606"
                           [] o = "camera_frame_id" -> fid
                           [] o = "front_light" -> fl
                           [] o = "projector" -> pr]
        : present \in SUBSET Options, fid \in {"world", "camera_link"},
          fl \in BOOLEAN, pr \in BOOLEAN }

\* The launch configurations of the full runs: nothing set, or everything set.
LaunchParams ==
    { p \in ParamServers :
        \/ DOMAIN p = {}
        \/ DOMAIN p = Options /\ p["camera_frame_id"] = "camera_link"
                              /\ p["front_light"] /\ ~p["projector"] }

\* nh_private_.hasParam(name)
hasParam(name) == name \in DOMAIN paramServer

\* nh_private_.param(name, var, default): the value set, else the default.
param(name, default) == IF hasParam(name) THEN paramServer[name] ELSE default

\* The ROS parameter API hands a bool over; the driver state keeps a toggle.
Toggle(b) == IF b THEN "on" ELSE "off"

\* ------------------------------------------------------------ initial state
\* The state before the constructor body runs, for a set of launch
\* configurations.
InitWith(launches) ==
    /\ paramServer \in launches
    /\ pc = "params"
    /\ serial_no = ""
    /\ camera_frame_id_ = ""
    /\ front_light = FALSE
    /\ projector = FALSE
    /\ warnings = {}
    /\ advertised = [c \in Channels |-> "no"]
    /\ ensenso = [device_open |-> FALSE, tcp_open |-> FALSE, configured |-> FALSE,
                  projector |-> "unset", front_light |-> "unset",
                  callback |-> FALSE, running |-> FALSE]
    /\ calib = 0
    /\ calls = <<>>
    /\ failed = {}
    /\ rosUp = TRUE
    /\ cb_pc = "idle"
    /\ frames = 0
    /\ triple = NoMsg
    /\ linfo = EmptyInfo
    /\ rinfo = EmptyInfo
    /\ cbFailed = {}
    /\ arrivalCalib = 0
    /\ published = <<>>
    /\ now = 0
    /\ retained = [c \in Channels |-> NoMsg]
    /\ latest = [c \in Channels |-> 0]
    /\ lateRecv = [ch |-> "", got |-> NoMsg]

Init == InitWith(LaunchParams)

\* Every launch configuration, for the runs of the constructor alone.
InitStartup == InitWith(ParamServers)

\* ------------------------------------------------- constructor: parameters
\* Mutant of ReadParams: the warnings test hasParam the wrong way round.
ReadParamsWarnInverted ==
    /\ pc = "params"
    /\ serial_no' = param("serial_no", DefaultSerial)
    /\ camera_frame_id_' = param("camera_frame_id", DefaultFrameId)
    /\ front_light' = param("front_light", FALSE)
    /\ projector' = param("projector", FALSE)
    /\ warnings' = {o \in Options : hasParam(o)}
    /\ pc' = "adv_l_raw"
    /\ UNCHANGED <<paramServer, advertised, calls, failed, rosUp, ensenso, calib, cbVars,
                   now, chanVars>>

\* Lines 57-70: each option is read with its default, and a warning is
\* emitted for each option that is not set.
ReadParams ==
    /\ pc = "params"
    /\ serial_no' = param("serial_no", DefaultSerial)
    /\ camera_frame_id_' = param("camera_frame_id", DefaultFrameId)
    /\ front_light' = param("front_light", FALSE)
    /\ projector' = param("projector", FALSE)
    /\ warnings' = {o \in Options : ~hasParam(o)}
    /\ pc' = "adv_l_raw"
    /\ UNCHANGED <<paramServer, advertised, calls, failed, rosUp, ensenso, calib, cbVars,
                   now, chanVars>>

\* ------------------------------------------------ constructor: advertising
\* One advertise call: the channel exists from here on; latch tells the
\* transport to keep the last message for consumers that attach later.
Advertise(at, ch, latch, next) ==
    /\ pc = at
    /\ advertised' = [advertised EXCEPT ![ch] = IF latch THEN "latched" ELSE "plain"]
    /\ pc' = next
    /\ UNCHANGED <<paramServer, serial_no, camera_frame_id_, front_light, projector,
                   warnings, calls, failed, rosUp, ensenso, calib, cbVars, now, chanVars>>

\* Line 73
AdvertiseLeftRaw == Advertise("adv_l_raw", "l_raw", FALSE, "adv_r_raw")
\* Line 74
AdvertiseRightRaw == Advertise("adv_r_raw", "r_raw", FALSE, "adv_l_rect")
\* Line 75
AdvertiseLeftRect == Advertise("adv_l_rect", "l_rect", FALSE, "adv_r_rect")
\* Line 76
AdvertiseRightRect == Advertise("adv_r_rect", "r_rect", FALSE, "adv_cloud")
\* Mutant of AdvertiseCloud: the latch argument is left out.
AdvertiseCloudPlain == Advertise("adv_cloud", "cloud", FALSE, "openDevice")

\* Mutant of AdvertiseCloud: the constructor goes on to the device without
\* having advertised the point-cloud channel.
AdvertiseCloudSkipped ==
    /\ pc = "adv_cloud"
    /\ pc' = "openDevice"
    /\ UNCHANGED <<paramServer, serial_no, camera_frame_id_, front_light, projector,
                   warnings, advertised, calls, failed, rosUp, ensenso, calib, cbVars,
                   now, chanVars>>

\* Line 77: the point-cloud publisher is latched.
AdvertiseCloud == Advertise("adv_cloud", "cloud", TRUE, "openDevice")

\* ---------------------------------------------------- driver calls (main)
\* How a driver call ends: it succeeds, it reports failure through its return
\* value, or it raises an exception.
Outcomes == {"ok", "false", "throw"}

\* A driver call made by the main thread as a plain statement: the return
\* value is discarded, so after "false" the thread goes on to the next
\* statement; an exception is caught nowhere (neither in the class nor in
\* main), so the process terminates.
DriverCall(at, name, r, next) ==
    /\ pc = at
    /\ calls' = Append(calls, name)
    /\ failed' = IF r = "ok" THEN failed ELSE failed \cup {name}
    /\ pc' = IF r = "throw" THEN "terminated" ELSE next
    /\ UNCHANGED <<paramServer, serial_no, camera_frame_id_, front_light, projector,
                   warnings, advertised, rosUp, calib, cbVars, now, chanVars>>

\* Lines 79-80: the grabber is created and asked to bind the device.
OpenDevice ==
    \E r \in Outcomes :
        /\ DriverCall("openDevice", "openDevice", r, "openTcpPort")
        /\ ensenso' = IF r = "ok" THEN [ensenso EXCEPT !.device_open = TRUE] ELSE ensenso

\* Line 81
OpenTcpPort ==
    \E r \in Outcomes :
        /\ DriverCall("openTcpPort", "openTcpPort", r, "configureCapture")
        /\ ensenso' = IF r = "ok" THEN [ensenso EXCEPT !.tcp_open = TRUE] ELSE ensenso

\* Line 82: the capture settings can only be applied to a bound device.
ConfigureCapture ==
    \E r \in Outcomes :
        /\ r = "ok" => ensenso.device_open
        /\ DriverCall("configureCapture", "configureCapture", r, "enableProjector")
        /\ ensenso' = IF r = "ok" THEN [ensenso EXCEPT !.configured = TRUE] ELSE ensenso

\* Line 83
EnableProjector ==
    /\ DriverCall("enableProjector", "enableProjector", "ok", "enableFrontLight")
    /\ ensenso' = [ensenso EXCEPT !.projector = Toggle(projector)]

\* Line 84
EnableFrontLight ==
    /\ DriverCall("enableFrontLight", "enableFrontLight", "ok", "registerCallback")
    /\ ensenso' = [ensenso EXCEPT !.front_light = Toggle(front_light)]

\* Lines 86-89
RegisterCallback ==
    /\ DriverCall("registerCallback", "registerCallback", "ok", "start")
    /\ ensenso' = [ensenso EXCEPT !.callback = TRUE]

\* Line 90: the acquisition thread runs from here on.
Start ==
    /\ DriverCall("start", "start", "ok", "spin")
    /\ ensenso' = [ensenso EXCEPT !.running = TRUE]

\* ------------------------------------------------------------------- main
\* Line 140: ros::spin() returns once shutdown of the node is requested.
Spin ==
    /\ pc = "spin"
    /\ pc' = "shutdown"
    /\ UNCHANGED <<paramServer, serial_no, camera_frame_id_, front_light, projector,
                   warnings, advertised, calls, failed, rosUp, ensenso, calib, cbVars, now,
                   chanVars>>

\* Line 141
RosShutdown ==
    /\ pc = "shutdown"
    /\ rosUp' = FALSE
    /\ pc' = "closeTcpPort"
    /\ UNCHANGED <<paramServer, serial_no, camera_frame_id_, front_light, projector,
                   warnings, advertised, calls, failed, ensenso, calib, cbVars, now, chanVars>>

\* ------------------------------------------------------------- destructor
\* Line 95: closing succeeds only for a channel that is open.
CloseTcpPort ==
    \E r \in Outcomes :
        /\ r = "ok" => ensenso.tcp_open
        /\ DriverCall("closeTcpPort", "closeTcpPort", r, "closeDevice")
        /\ ensenso' = IF r = "ok" THEN [ensenso EXCEPT !.tcp_open = FALSE] ELSE ensenso

\* Line 96: releasing succeeds only for a device that is bound.
CloseDevice ==
    \E r \in Outcomes :
        /\ r = "ok" => ensenso.device_open
        /\ DriverCall("closeDevice", "closeDevice", r, "return")
        /\ ensenso' = IF r = "ok" THEN [ensenso EXCEPT !.device_open = FALSE] ELSE ensenso

\* Lines 142-143: main returns and the process, with all its threads, ends.
MainReturn ==
    /\ pc = "return"
    /\ pc' = "exited"
    /\ UNCHANGED <<paramServer, serial_no, camera_frame_id_, front_light, projector,
                   warnings, advertised, calls, failed, rosUp, ensenso, calib, cbVars, now,
                   chanVars>>

\* The process is alive: main has neither returned nor been terminated.
Alive == pc \notin {"exited", "terminated"}

\* ------------------------------------------------------------ frame triples
\* Bytes per pixel of a driver encoding.
BytesPerPixel(tag) == CASE tag = "CV_8UC3" -> 3 [] tag = "CV_16UC1" -> 2 [] OTHER -> 1

\* One pcl::PCLImage of a triple: src names the buffer it is.
PclImage(seq, which, tag, shape) ==
    [src |-> <<seq, which>>, encoding |-> tag, height |-> shape[1], width |-> shape[2],
     size |-> shape[1] * shape[2] * BytesPerPixel(tag)]

\* The triple the driver hands to the callback: the shared cloud with the
\* header the driver gave it, the raw pair and the rectified pair; the four
\* images of a triple have the sensor's shape and encoding.
FrameTriple(seq, shape, tag, stamp) ==
    [kind |-> "triple", seq |-> seq,
     cloud |-> [kind |-> "cloud", seq |-> seq, points |-> <<seq, "points">>,
                frame_id |-> "", stamp |-> stamp],
     raw |-> [first |-> PclImage(seq, "rawL", tag, shape),
              second |-> PclImage(seq, "rawR", tag, shape)],
     rect |-> [first |-> PclImage(seq, "rectL", tag, shape),
               second |-> PclImage(seq, "rectR", tag, shape)]]

\* A read of ros::Time::now(): the clock never goes back.
ClockReads(t) == {u \in t..MaxTime : u <= t + 1}

\* ------------------------------------------------------------- toImageMsg
\* Mutant of toImageMsg: every tag but the grey one is taken for colour.
toImageMsgColorDefault(pcl_image, stamp) ==
    LET color == pcl_image.encoding # "CV_8UC1"
        encoding == IF color THEN "bgr8" ELSE "mono8"
        channels == IF color THEN 3 ELSE 1
    IN  [kind |-> "image", src |-> pcl_image.src, encoding |-> encoding,
         height |-> pcl_image.height, width |-> pcl_image.width,
         bytes |-> pcl_image.height * pcl_image.width * channels,
         frame_id |-> ConversionFrameId, stamp |-> stamp]

\* Lines 118-133: the encoding is bgr8 for the colour tag and mono8 for any
\* other tag; the cv::Mat over the buffer has the image's height and width;
\* the header carries the hardcoded frame label and the time of conversion.
\* bytes is what the conversion reads from the buffer.
toImageMsg(pcl_image, stamp) ==
    LET color == pcl_image.encoding = ColorTag
        encoding == IF color THEN "bgr8" ELSE "mono8"
        channels == IF color THEN 3 ELSE 1
    IN  [kind |-> "image", src |-> pcl_image.src, encoding |-> encoding,
         height |-> pcl_image.height, width |-> pcl_image.width,
         bytes |-> pcl_image.height * pcl_image.width * channels,
         frame_id |-> ConversionFrameId, stamp |-> stamp]

\* ------------------------------------------------------------ the transport
\* publish on a channel: a latched channel keeps the message for consumers
\* that attach later, a plain one keeps nothing.
Deliver(ch, msg) ==
    /\ retained' = IF advertised[ch] = "latched"
                   THEN [retained EXCEPT ![ch] = msg] ELSE retained
    /\ latest' = [latest EXCEPT ![ch] = triple.seq]
    /\ UNCHANGED lateRecv

\* A consumer attaches to an advertised channel: it is handed what the
\* channel retained, and nothing is captured for it.
Subscribe ==
    \E ch \in Channels :
        /\ Alive /\ rosUp
        /\ advertised[ch] # "no"
        /\ lateRecv' = [ch |-> ch, got |-> retained[ch]]
        /\ UNCHANGED <<mainVars, ensenso, calib, cbVars, now, retained, latest>>

\* --------------------------------------------------------- grabberCallback
\* The acquisition thread fires the registered callback with a new triple.
FrameArrives ==
    /\ Alive
    /\ ensenso.running /\ ensenso.callback /\ ensenso.device_open
    /\ cb_pc = "idle"
    /\ frames < MaxFrames
    /\ \E shape \in Shapes, tag \in Tags :
          triple' = FrameTriple(frames + 1, shape, tag, now)
    /\ frames' = frames + 1
    /\ linfo' = EmptyInfo
    /\ rinfo' = EmptyInfo
    /\ cbFailed' = {}
    /\ arrivalCalib' = calib
    /\ published' = <<>>
    /\ cb_pc' = "getLeft"
    /\ UNCHANGED <<mainVars, ensenso, calib, now, chanVars>>

\* The calibration of the bound device changes (it is recalibrated at runtime).
Recalibrate ==
    /\ Alive
    /\ ensenso.device_open
    /\ calib < MaxCalib
    /\ calib' = calib + 1
    /\ UNCHANGED <<mainVars, ensenso, cbVars, now, chanVars>>

\* getCameraInfo(eye, info): on success info is the eye's intrinsics as the
\* device holds them now; on failure info is left as it was.  The query needs
\* the control channel.
QueriedInfo(eye, info, r) ==
    IF r = "ok"
    THEN [kind |-> "info", eye |-> eye, K |-> <<eye, calib>>, frame_id |-> "", stamp |-> 0]
    ELSE info

\* A step of the callback that queries one eye's intrinsics.  The return
\* value is discarded; an exception leaves the callback, which has no handler.
GetCameraInfo(at, eye, r, next) ==
    /\ Alive
    /\ cb_pc = at
    /\ r = "ok" => ensenso.tcp_open
    /\ cbFailed' = IF r = "ok" THEN cbFailed ELSE cbFailed \cup {eye}
    /\ cb_pc' = IF r = "throw" THEN "escaped" ELSE next
    /\ UNCHANGED <<mainVars, ensenso, calib, frames, triple, arrivalCalib, published, now,
                   chanVars>>

\* Mutant of GetLeftInfo: the left intrinsics are those cached at startup.
GetLeftInfoCached ==
    \E r \in Outcomes :
        /\ GetCameraInfo("getLeft", "Left", r, "getRight")
        /\ linfo' = IF r = "ok"
                    THEN [QueriedInfo("Left", linfo, r) EXCEPT !.K = <<"Left", 0>>]
                    ELSE linfo
        /\ UNCHANGED rinfo

\* Line 104
GetLeftInfo ==
    \E r \in Outcomes :
        /\ GetCameraInfo("getLeft", "Left", r, "getRight")
        /\ linfo' = QueriedInfo("Left", linfo, r)
        /\ UNCHANGED rinfo

\* Line 105
GetRightInfo ==
    \E r \in Outcomes :
        /\ GetCameraInfo("getRight", "Right", r, "setInfo")
        /\ rinfo' = QueriedInfo("Right", rinfo, r)
        /\ UNCHANGED linfo

\* Lines 106-107
SetInfoFrames ==
    /\ Alive
    /\ cb_pc = "setInfo"
    /\ linfo' = [linfo EXCEPT !.frame_id = camera_frame_id_]
    /\ rinfo' = [rinfo EXCEPT !.frame_id = camera_frame_id_]
    /\ cb_pc' = "pubLeftRaw"
    /\ UNCHANGED <<mainVars, ensenso, calib, frames, triple, cbFailed, arrivalCalib,
                   published, now, chanVars>>

\* CameraPublisher::publish(image, info, stamp): both headers get the stamp,
\* then the pair is sent.
CameraArtifact(ch, image, info, stamp) ==
    [ch |-> ch, image |-> [image EXCEPT !.stamp = stamp],
     info |-> [info EXCEPT !.stamp = stamp]]

\* Publisher::publish(image): the image is sent as converted, without intrinsics.
ImageArtifact(ch, image) == [ch |-> ch, image |-> image, info |-> NoMsg]

\* Lines 109 and 110: convert the raw image (one clock read), read the clock
\* for the stamp, publish image and intrinsics together.
PublishRaw(at, ch, pcl_image, info, next) ==
    /\ Alive
    /\ cb_pc = at
    /\ \E t1 \in ClockReads(now) : \E t2 \in ClockReads(t1) :
          LET art == CameraArtifact(ch, toImageMsg(pcl_image, t1), info, t2)
          IN  /\ published' = Append(published, art)
              /\ Deliver(ch, art)
              /\ now' = t2
    /\ cb_pc' = next
    /\ UNCHANGED <<mainVars, ensenso, calib, frames, triple, linfo, rinfo, cbFailed,
                   arrivalCalib>>

\* Line 109
PublishLeftRaw == PublishRaw("pubLeftRaw", "l_raw", triple.raw.first, linfo, "pubRightRaw")

\* Mutant of PublishRightRaw: the right raw image goes out with the left
\* eye's intrinsics.
PublishRightRawLeftInfo ==
    PublishRaw("pubRightRaw", "r_raw", triple.raw.second, linfo, "pubLeftRect")

\* Line 110
PublishRightRaw == PublishRaw("pubRightRaw", "r_raw", triple.raw.second, rinfo, "pubLeftRect")

\* Lines 111 and 112: convert the rectified image and publish it alone.
PublishRect(at, ch, pcl_image, next) ==
    /\ Alive
    /\ cb_pc = at
    /\ \E t \in ClockReads(now) :
          LET art == ImageArtifact(ch, toImageMsg(pcl_image, t))
          IN  /\ published' = Append(published, art)
              /\ Deliver(ch, art)
              /\ now' = t
    /\ cb_pc' = next
    /\ UNCHANGED <<mainVars, ensenso, calib, frames, triple, linfo, rinfo, cbFailed,
                   arrivalCalib>>

\* Mutant of PublishLeftRect: the left rectified image goes out on the right
\* rectified channel.
PublishLeftRectOnRight ==
    PublishRect("pubLeftRect", "r_rect", triple.rect.first, "pubRightRect")

\* Line 111
PublishLeftRect == PublishRect("pubLeftRect", "l_rect", triple.rect.first, "pubRightRect")

\* Line 112
PublishRightRect == PublishRect("pubRightRect", "r_rect", triple.rect.second, "setCloud")

\* Mutant of SetCloudFrame: the write to the shared cloud also clears its
\* points.
SetCloudFrameClearPoints ==
    /\ Alive
    /\ cb_pc = "setCloud"
    /\ triple' = [triple EXCEPT !.cloud.frame_id = camera_frame_id_,
                                !.cloud.points = <<>>]
    /\ cb_pc' = "pubCloud"
    /\ UNCHANGED <<mainVars, ensenso, calib, frames, linfo, rinfo, cbFailed,
                   arrivalCalib, published, now, chanVars>>

\* Line 114: the label is written into the driver's shared cloud.
SetCloudFrame ==
    /\ Alive
    /\ cb_pc = "setCloud"
    /\ triple' = [triple EXCEPT !.cloud.frame_id = camera_frame_id_]
    /\ cb_pc' = "pubCloud"
    /\ UNCHANGED <<mainVars, ensenso, calib, frames, linfo, rinfo, cbFailed,
                   arrivalCalib, published, now, chanVars>>

\* Lines 115-116: the shared cloud is published and the callback returns.
PublishCloud ==
    /\ Alive
    /\ cb_pc = "pubCloud"
    /\ LET art == [ch |-> "cloud", image |-> triple.cloud, info |-> NoMsg]
       IN  /\ published' = Append(published, art)
           /\ Deliver("cloud", art)
    /\ cb_pc' = "idle"
    /\ UNCHANGED <<mainVars, ensenso, calib, frames, triple, linfo, rinfo, cbFailed,
                   arrivalCalib, now>>

\* ------------------------------------------------------------ specification
\* The constructor, lines 56-91.
Startup ==
    \/ ReadParams
    \/ AdvertiseLeftRaw \/ AdvertiseRightRaw \/ AdvertiseLeftRect
    \/ AdvertiseRightRect \/ AdvertiseCloud
    \/ OpenDevice \/ OpenTcpPort \/ ConfigureCapture
    \/ EnableProjector \/ EnableFrontLight \/ RegisterCallback \/ Start

\* The rest of main and the destructor, lines 93-97 and 140-143.
Shutdown == Spin \/ RosShutdown \/ CloseTcpPort \/ CloseDevice \/ MainReturn

\* The acquisition thread: one invocation of grabberCallback per triple.
Callback ==
    \/ FrameArrives \/ GetLeftInfo \/ GetRightInfo \/ SetInfoFrames
    \/ PublishLeftRaw \/ PublishRightRaw \/ PublishLeftRect \/ PublishRightRect
    \/ SetCloudFrame \/ PublishCloud

\* The node with all of its environment: consumers attach, the device is
\* recalibrated.
Next == Startup \/ Shutdown \/ Callback \/ Subscribe \/ Recalibrate

Spec == Init /\ [][Next]_vars

\* The node with consumers attaching, the calibration left alone.
NextConsumers == Startup \/ Shutdown \/ Callback \/ Subscribe

SpecConsumers == Init /\ [][NextConsumers]_vars

\* The node and its device, no consumer attaching.
NextDevice == Startup \/ Shutdown \/ Callback \/ Recalibrate

SpecDevice == Init /\ [][NextDevice]_vars

\* The constructor alone, from every launch configuration.
SpecStartup == InitStartup /\ [][Startup]_vars

\* ------------------------------------------------------------------ claims
\* The main thread has made driver call name.
Called(name) == \E i \in DOMAIN calls : calls[i] = name

\* Driver call a was made, and earlier than every call b.
CalledBefore(a, b) ==
    \A j \in DOMAIN calls : calls[j] = b => \E i \in 1..(j - 1) : calls[i] = a

\* The destructor has started to close the control channel or the device.
TeardownBegun == Called("closeTcpPort") \/ Called("closeDevice")

\* The last invocation of the callback is over: it returned or it was left
\* by an exception.
CallbackOver == frames > 0 /\ cb_pc \in {"idle", "escaped"}

\* The channels the current invocation has published on.
PublishedChannels == {published[i].ch : i \in DOMAIN published}

\* The order in which lines 109-115 publish.
PublishOrder == <<"l_raw", "r_raw", "l_rect", "r_rect", "cloud">>

\* The raw channel of an eye.
RawChannel(eye) == IF eye = "Left" THEN "l_raw" ELSE "r_raw"

\* The buffer of the current triple an image artifact was converted from.
SourceImage(ch) ==
    CASE ch = "l_raw" -> triple.raw.first
      [] ch = "r_raw" -> triple.raw.second
      [] ch = "l_rect" -> triple.rect.first
      [] ch = "r_rect" -> triple.rect.second

\* C1: on disposal the teardown steps run in the order stop(), closeTcpPort,
\* closeDevice; in particular stop() is invoked before the control channel is
\* closed.
C1_TeardownOrder ==
    /\ CalledBefore("stop", "closeTcpPort")
    /\ CalledBefore("closeTcpPort", "closeDevice")

\* C2: once the destructor has begun to close the control channel or the
\* device, no invocation of grabberCallback is executing.
C2_NoCallbackDuringTeardown ==
    (Alive /\ TeardownBegun) => cb_pc \in {"idle", "escaped"}

\* C3: every artifact published from a triple (images, intrinsics, cloud)
\* carries the configured coordinate-frame label camera_frame_id_.
C3_SameFrameLabel ==
    \A i \in DOMAIN published :
        /\ published[i].image.frame_id = camera_frame_id_
        /\ published[i].info # NoMsg => published[i].info.frame_id = camera_frame_id_

\* C4: when the intrinsics query failed for exactly one eye, the invocation
\* publishes on every channel except that eye's raw channel.
C4_PartialFailureIsolation ==
    \A eye \in Eyes :
        (CallbackOver /\ cbFailed = {eye}) =>
            PublishedChannels = Channels \ {RawChannel(eye)}

\* C5: no failure inside grabberCallback leaves the callback as an exception
\* into the acquisition thread.
C5_NoEscape == cb_pc # "escaped"

\* C6: the artifacts of one triple are published in the order left raw with
\* left intrinsics, right raw with right intrinsics, left rectified, right
\* rectified, point cloud, each channel at most once, and a failure-free
\* invocation that has returned has published on all five.
C6_PublishOrder ==
    /\ Len(published) <= Len(PublishOrder)
    /\ \A i \in DOMAIN published :
          /\ published[i].ch = PublishOrder[i]
          /\ published[i].ch = "cloud" => published[i].image.seq = triple.seq
          /\ published[i].ch # "cloud" => published[i].image.src[1] = triple.seq
    /\ cbFailed = {} =>
          /\ Len(published) >= 1 => published[1].info.eye = "Left"
          /\ Len(published) >= 2 => published[2].info.eye = "Right"
          /\ (frames > 0 /\ cb_pc = "idle") => Len(published) = Len(PublishOrder)

C6_Witness ==
    /\ frames = MaxFrames /\ cb_pc = "idle" /\ cbFailed = {}
    /\ Len(published) = 5 /\ published[5].ch = "cloud"

\* C7: every converted image has encoding bgr8 when the driver tag of its
\* buffer is CV_8UC3 and mono8 for every other tag, keeps the buffer's height
\* and width, and the conversion reads no more than the buffer holds.
C7_ClosedEncodingMapping ==
    \A i \in DOMAIN published :
        published[i].ch # "cloud" =>
            LET out == published[i].image
                in == SourceImage(published[i].ch)
            IN  /\ out.src = in.src
                /\ out.encoding \in {"bgr8", "mono8"}
                /\ out.encoding = "bgr8" <=> in.encoding = "CV_8UC3"
                /\ out.height = in.height /\ out.width = in.width
                /\ out.bytes <= in.size

C7_Witness ==
    \E i \in DOMAIN published :
        /\ published[i].ch = "l_raw"
        /\ triple.raw.first.encoding = "CV_16UC1"
        /\ published[i].image.encoding = "mono8"
        /\ published[i].image.height = 2 /\ published[i].image.width = 3

\* C8: an output channel is advertised only after the device has been opened
\* successfully.
C8_AdvertiseAfterOpen ==
    (\E c \in Channels : advertised[c] # "no") =>
        (Called("openDevice") /\ "openDevice" \notin failed)

\* C9: when device open, control-channel open or capture configuration has
\* failed, the startup is aborted: start() is not called and no callback runs.
C9_InitFailureAborts ==
    (failed \cap {"openDevice", "openTcpPort", "configureCapture"} # {}) =>
        (~Called("start") /\ frames = 0)

\* C10: a consumer that attaches to the point-cloud channel after a cloud was
\* published is handed the most recently published cloud, with no capture and
\* no publication taking place; a consumer that attaches to an image channel
\* is handed nothing.
C10_RetainedDelivery ==
    [][lateRecv' # lateRecv =>
          /\ frames' = frames /\ published' = published /\ latest' = latest
          /\ IF lateRecv'.ch = "cloud" /\ latest["cloud"] > 0
             THEN /\ lateRecv'.got # NoMsg
                  /\ lateRecv'.got.image.seq = latest["cloud"]
             ELSE lateRecv'.got = NoMsg]_vars

C10_Witness ==
    /\ lateRecv.ch = "cloud"
    /\ lateRecv.got # NoMsg
    /\ lateRecv.got.image.seq = MaxFrames

\* The stamps carried by one published artifact: the image's or cloud's, and
\* the intrinsics' when there are any.
ArtifactStamps(art) ==
    {art.image.stamp} \cup (IF art.info = NoMsg THEN {} ELSE {art.info.stamp})

\* C11: all artifacts published from one triple carry the same timestamp.
C11_SameStamp ==
    \A i, j \in DOMAIN published :
        ArtifactStamps(published[i]) = ArtifactStamps(published[j])

\* The eye named by the intrinsics an invocation holds for eye after its
\* query: the eye itself, or none when the query failed and left the
\* default-constructed record.
QueriedEye(eye) == IF eye \in cbFailed THEN "" ELSE eye

\* C12: the left raw channel carries the triple's left raw image with what the
\* "Left" query put into linfo, the right raw channel the right raw image with
\* what the "Right" query put into rinfo; the rectified channels and the
\* cloud channel carry no intrinsics.
C12_IntrinsicsPairing ==
    \A i \in DOMAIN published :
        LET art == published[i]
        IN  /\ art.ch = "l_raw" =>
                /\ art.image.src = <<triple.seq, "rawL">>
                /\ art.info # NoMsg
                /\ art.info.eye = QueriedEye("Left")
                /\ art.info.K[1] = QueriedEye("Left")
            /\ art.ch = "r_raw" =>
                /\ art.image.src = <<triple.seq, "rawR">>
                /\ art.info # NoMsg
                /\ art.info.eye = QueriedEye("Right")
                /\ art.info.K[1] = QueriedEye("Right")
            /\ art.ch = "l_rect" =>
                (art.image.src = <<triple.seq, "rectL">> /\ art.info = NoMsg)
            /\ art.ch = "r_rect" =>
                (art.image.src = <<triple.seq, "rectR">> /\ art.info = NoMsg)
            /\ art.ch = "cloud" => art.info = NoMsg

C12_Witness ==
    /\ Len(published) >= 4
    /\ published[1].info.eye = "Left" /\ published[2].info.eye = "Right"
    /\ published[2].image.src = <<MaxFrames, "rawR">>
    /\ published[4].info = NoMsg

\* The process has ended: main returned or the process was terminated.
Ended == pc \in {"exited", "terminated"}

\* C13: a teardown step that fails is not escalated and does not keep the
\* later steps from being attempted: the teardown never terminates the
\* process, and once it has begun the process does not end before closeDevice
\* has been called.
C13_BestEffortTeardown ==
    /\ TeardownBegun => pc # "terminated"
    /\ (TeardownBegun /\ Ended) => Called("closeDevice")

\* The driver calls of the constructor, lines 80-90, in order.
StartupOrder ==
    <<"openDevice", "openTcpPort", "configureCapture", "enableProjector",
      "enableFrontLight", "registerCallback", "start">>

\* C14: the startup calls are made in the fixed order, the toggles with the
\* configured values; no callback runs before start() was called; start() is
\* not called when the control channel could not be opened.
C14_StartupOrder ==
    /\ \A i \in DOMAIN calls : i <= Len(StartupOrder) => calls[i] = StartupOrder[i]
    /\ Called("enableProjector") =>
          ensenso.projector = Toggle(param("projector", FALSE))
    /\ Called("enableFrontLight") =>
          ensenso.front_light = Toggle(param("front_light", FALSE))
    /\ frames > 0 => Called("start")
    /\ Called("start") => "openTcpPort" \notin failed

\* What the constructor holds for an option once the parameters are read.
OptionValue(o) ==
    CASE o = "serial_no" -> serial_no
      [] o = "camera_frame_id" -> camera_frame_id_
      [] o = "front_light" -> front_light
      [] o = "projector" -> projector

\* The documented default of an option.
DocumentedDefault(o) ==
    CASE o = "serial_no" -> "150533"
      [] o = "camera_frame_id" -> "ensenso_optical_frame"
      [] o = "front_light" -> FALSE
      [] o = "projector" -> FALSE

\* C15: once the parameters are read, an option that is not set has its
\* documented default and a warning, an option that is set has the value set
\* and no warning; reading the parameters never fails the startup, which ends
\* abnormally only after a driver call failed.
C15_MissingOptionDefaults ==
    /\ pc = "params" => warnings = {}
    /\ pc # "params" =>
          \A o \in Options :
              IF o \in DOMAIN paramServer
              THEN OptionValue(o) = paramServer[o] /\ o \notin warnings
              ELSE OptionValue(o) = DocumentedDefault(o) /\ o \in warnings
    /\ pc = "terminated" => failed # {}

C15_Witness ==
    /\ pc = "spin"
    /\ DOMAIN paramServer = {"serial_no", "projector"}
    /\ warnings = {"camera_frame_id", "front_light"}
    /\ camera_frame_id_ = "ensenso_optical_frame"
    /\ ensenso.front_light = "off"
    /\ serial_no = "160606"

\* The eye whose intrinsics a raw channel carries.
EyeOf(ch) == IF ch = "l_raw" THEN "Left" ELSE "Right"

\* C16: the intrinsics published with a raw image are those the device held
\* at some moment of the same invocation, never those of an earlier triple:
\* their version is neither older than the calibration at the start of the
\* invocation nor newer than the current one.
C16_FreshIntrinsics ==
    \A i \in DOMAIN published :
        LET art == published[i]
        IN  (art.ch \in {"l_raw", "r_raw"} /\ EyeOf(art.ch) \notin cbFailed) =>
                /\ art.info.K[1] = EyeOf(art.ch)
                /\ arrivalCalib <= art.info.K[2]
                /\ art.info.K[2] <= calib

C16_Witness ==
    /\ frames = 2 /\ arrivalCalib = 1
    /\ Len(published) >= 2
    /\ published[1].info.K = <<"Left", 1>>
    /\ published[2].info.K = <<"Right", 1>>

\* The driver call name was made and succeeded.
Succeeded(name) == Called(name) /\ name \notin failed

\* C18: a run that opened the device does not end, normally or abnormally,
\* without having called closeDevice, nor, when it opened the control
\* channel, without having called closeTcpPort.
C18_CloseOnEveryExit ==
    (Ended /\ Succeeded("openDevice")) =>
        /\ Called("closeDevice")
        /\ Succeeded("openTcpPort") => Called("closeTcpPort")

\* C19: what the callback depends on is set up before it can run. Once the
\* callback has been registered or the grabber started, all five channels are
\* advertised and the label has been read; every artifact the callback
\* published went to an advertised channel; and from the end of the parameter
\* step on the label keeps the value that step gave it.
C19_SetUpBeforeCallback ==
    /\ (Called("registerCallback") \/ Called("start") \/ frames > 0) =>
           /\ \A c \in Channels : advertised[c] # "no"
           /\ pc # "params"
    /\ \A i \in DOMAIN published : advertised[published[i].ch] # "no"
    /\ pc # "params" => camera_frame_id_ = param("camera_frame_id", DefaultFrameId)

\* A callback has published on all five channels.
C19_Witness ==
    /\ Len(published) = 5
    /\ \A c \in Channels : advertised[c] # "no"
    /\ camera_frame_id_ = param("camera_frame_id", DefaultFrameId)

\* C20: while the callback works on a triple, no step changes the raw pair,
\* the rectified pair or the cloud's points, sequence number and stamp; the
\* only change to the triple is the step that writes the label into the cloud.
C20_OnlyCloudLabelWritten ==
    [][cb_pc \notin {"idle", "escaped"} =>
          /\ triple'.raw = triple.raw
          /\ triple'.rect = triple.rect
          /\ triple'.cloud = [triple.cloud EXCEPT !.frame_id = triple'.cloud.frame_id]
          /\ triple' # triple =>
                /\ cb_pc = "setCloud"
                /\ triple'.cloud.frame_id = camera_frame_id_]_vars

\* The callback has written the label into a cloud that carried another one.
C20_Witness ==
    /\ cb_pc = "pubCloud"
    /\ triple.cloud.frame_id = camera_frame_id_
    /\ triple.cloud.points = <<triple.seq, "points">>
    /\ triple.cloud.frame_id # FrameTriple(triple.seq, <<1, 2>>, ColorTag, 0).cloud.frame_id

====
